---- MODULE Spec2Model ----
(***************************************************************************)
(* Attach/detach lifecycle of the Advantech PCI CAN card driver.           *)
(*                                                                         *)
(* Two builds of the driver are modelled side by side:                     *)
(*   "single" : src/advantech_can_pci.c (one memory-mapped layout,         *)
(*              0x400 bytes per port, port count in the device id nibble)  *)
(*   "multi"  : src/drivers/net/can/sja1000/advantech_can_pci.c            *)
(*              (card_data topology table, port-mapped and memory-mapped)  *)
(* Every call the driver makes into the PCI core or the SJA1000 module is  *)
(* one step; a step that can fail draws its outcome with \E.               *)
(***************************************************************************)
EXTENDS Integers, Sequences, FiniteSets, TLC

\* ------------------------------------------------------------------ bounds

\* How many times the bus layer may call adv_probe on the device.
MaxProbes == 2

\* ARRAY_SIZE(card->net_dev)
NetDevSlots == 4

\* ARRAY_SIZE(card->bar_addr)
BarSlots == 2

\* Handles alloc_sja1000dev can hand out over all probes (0 is NULL).
MaxH == NetDevSlots * MaxProbes

\* Addresses pci_iomap may return for BAR 0 (0 is NULL, a failed map).
MapAddrs == {4096, 65536}

\* Status codes register_sja1000dev may fail with.
RegisterErrs == {"-EBUSY", "-EIO"}

\* Status codes pci_request_region may fail with.
RequestErrs == {"-EBUSY"}

\* ----------------------------------------------------------------- tables

RECURSIVE BitAnd(_, _)
BitAnd(a, b) ==
    IF a = 0 \/ b = 0 THEN 0
    ELSE (IF a % 2 = 1 /\ b % 2 = 1 THEN 1 ELSE 0) + 2 * BitAnd(a \div 2, b \div 2)

\* enum board_id
Boards ==
    {"pci_1680", "mic_3680", "uno_2052", "eamb_ph07",
     "c001", "c002", "c004", "c101", "c102", "c104",
     "c201", "c202", "c204", "c301", "c302", "c304"}

\* a topology table that gives every board two ports
card_dataTwoPorts(b) ==
    [ports |-> 2,
     iolength |-> IF b \in {"c201", "c202", "c204", "c301", "c302", "c304"} THEN 1024
                  ELSE IF b \in {"pci_1680", "mic_3680", "uno_2052", "eamb_ph07"} THEN 0
                  ELSE 256,
     port_space |-> IF b \in {"pci_1680", "mic_3680", "uno_2052", "eamb_ph07"} THEN 1 ELSE 0]

\* static const struct card_data card_data[]: {name, ports, iolength, port_space}
card_data(b) ==
    CASE b \in {"pci_1680", "mic_3680", "uno_2052"} ->
            [ports |-> 2, iolength |-> 0, port_space |-> 1]
      [] b = "eamb_ph07" -> [ports |-> 1, iolength |-> 0, port_space |-> 1]
      [] b \in {"c001", "c101"} -> [ports |-> 1, iolength |-> 256, port_space |-> 0]
      [] b \in {"c002", "c102"} -> [ports |-> 2, iolength |-> 256, port_space |-> 0]
      [] b \in {"c004", "c104"} -> [ports |-> 4, iolength |-> 256, port_space |-> 0]
      [] b \in {"c201", "c301"} -> [ports |-> 1, iolength |-> 1024, port_space |-> 0]
      [] b \in {"c202", "c302"} -> [ports |-> 2, iolength |-> 1024, port_space |-> 0]
      [] b \in {"c204", "c304"} -> [ports |-> 4, iolength |-> 1024, port_space |-> 0]

\* adv_pci_tbl of the single-layout build: device ids 0xc201 .. 0xc304
adv_pci_tbl_single ==
    { [device |-> d, driver_data |-> "none"] :
        d \in {49665, 49666, 49668, 49921, 49922, 49924} }

\* adv_pci_tbl of the multi-layout build: (device id, board_id)
adv_pci_tbl_multi ==
    { [device |-> 5760,  driver_data |-> "pci_1680"],
      [device |-> 13952, driver_data |-> "mic_3680"],
      [device |-> 8274,  driver_data |-> "uno_2052"],
      [device |-> 5761,  driver_data |-> "eamb_ph07"],
      [device |-> 49153, driver_data |-> "c001"],
      [device |-> 49154, driver_data |-> "c002"],
      [device |-> 49156, driver_data |-> "c004"],
      [device |-> 49409, driver_data |-> "c101"],
      [device |-> 49410, driver_data |-> "c102"],
      [device |-> 49412, driver_data |-> "c104"],
      [device |-> 49665, driver_data |-> "c201"],
      [device |-> 49666, driver_data |-> "c202"],
      [device |-> 49668, driver_data |-> "c204"],
      [device |-> 49921, driver_data |-> "c301"],
      [device |-> 49922, driver_data |-> "c302"],
      [device |-> 49924, driver_data |-> "c304"] }

adv_pci_tbl(b) == IF b = "single" THEN adv_pci_tbl_single ELSE adv_pci_tbl_multi

\* PORTS_MASK is used by the multi-layout port loop but defined nowhere in the
\* file; the comment above the loop ("lowest nibble") gives its value.
PORTS_MASK == 15


\* ------------------------------------------------------------------ state

VARIABLES
    build,       \* which source file is built: "single" or "multi"
    ent,         \* the adv_pci_tbl entry the bus layer matched
    pc,          \* position of the driver in adv_probe / adv_remove
    caller,      \* who called adv_remove: "probe" (failure_cleanup) or "bus"
    i,           \* the local loop index i
    err,         \* the local err of adv_probe / adv_alloc_io
    ret,         \* status the last adv_probe / adv_alloc_io returned
    busy,        \* regions another owner holds when the call starts
    enabled,     \* the PCI device is enabled
    card,        \* the card record: "none", "alloc" or "freed"
    cards,       \* card records allocated and not freed
    drvdata,     \* pci_get_drvdata(pdev): "NULL" or "card"
    bar_addr,    \* card->bar_addr[] (card->can_addr is bar_addr[0])
    maps,        \* live pci_iomap mappings
    net_dev,     \* card->net_dev[]: 0 is NULL, else a handle
    hs,          \* per handle: state, priv fields, calls seen
    nextH,       \* next handle alloc_sja1000dev returns
    reserveCnt,  \* per region: successful pci_request_region calls
    releaseCnt,  \* per region: pci_release_region calls
    log,         \* calls made since the current adv_probe began
    probes,      \* adv_probe calls so far
    removes      \* adv_remove calls by the bus layer since the last probe

vars ==
    <<build, ent, pc, caller, i, err, ret, busy, enabled, card, cards, drvdata,
      bar_addr, maps, net_dev, hs, nextH, reserveCnt, releaseCnt, log, probes,
      removes>>

\* PCI resource regions (BARs) of one device
Regions == 0 .. 5

\* Regions adv_probe requests
ProbedRegions == {0}

Handles == 1 .. MaxH

Ev(op, arg, ok) == [op |-> op, arg |-> arg, ok |-> ok]

\* the fields of a net_device / sja1000_priv that alloc_sja1000dev has not set
NoCfg == [irq |-> "none", irq_flags |-> {}, freq |-> 0, ocr |-> {}, cdr |-> {}]

NoHandle ==
    [st |-> "unalloc", regok |-> FALSE, frees |-> 0, unregs |-> 0,
     reg_base |-> 0, acc |-> "none", dev_id |-> 0, cfg |-> NoCfg]

\* kzalloc: the record starts zeroed
ZeroNetDev == [s \in 0 .. NetDevSlots - 1 |-> 0]

ZeroBarAddr == [s \in 0 .. BarSlots - 1 |-> 0]

\* card->card_data = &card_data[ent->driver_data]
cd == card_data(ent.driver_data)

\* the layout takes the port-mapped branches of adv_probe
PortSpace == build = "multi" /\ cd.port_space # 0

\* a port loop that runs one index too far
PortLoopOffByOne(k) ==
    IF build = "single"
    THEN k <= BitAnd(ent.device, 15)
    ELSE BitAnd(IF k <= cd.ports THEN 1 ELSE 0, PORTS_MASK) # 0

\* the condition of the port loop of adv_probe, for index k
PortLoop(k) ==
    IF build = "single"
    THEN k < BitAnd(ent.device, 15)
    ELSE BitAnd(IF k < cd.ports THEN 1 ELSE 0, PORTS_MASK) # 0

\* every port given the base of the region, without its stride
RegBaseNoStride(k) ==
    IF build = "single" THEN bar_addr[0]
    ELSE IF cd.port_space # 0 THEN bar_addr[k]
    ELSE bar_addr[0]

\* priv->reg_base for port k
RegBase(k) ==
    IF build = "single" THEN bar_addr[0] + 1024 * k
    ELSE IF cd.port_space # 0 THEN bar_addr[k]
    ELSE bar_addr[0] + cd.iolength * k

\* #define ADV_PCI_CAN_CLOCK (16000000 / 2)
ADV_PCI_CAN_CLOCK == 16000000 \div 2

\* #define ADV_PCI_OCR (OCR_TX0_PUSHPULL | OCR_TX1_PUSHPULL), as the set of flags
ADV_PCI_OCR == {"OCR_TX0_PUSHPULL", "OCR_TX1_PUSHPULL"}

\* #define ADV_PCI_CDR (CDR_CBP | CDR_CLKOUT_MASK), as the set of flags
ADV_PCI_CDR == {"CDR_CBP", "CDR_CLKOUT_MASK"}

\* a port set up without the shared-interrupt flag
PrivSetupNotShared ==
    [irq |-> "pdev->irq", irq_flags |-> {}, freq |-> ADV_PCI_CAN_CLOCK,
     ocr |-> ADV_PCI_OCR, cdr |-> ADV_PCI_CDR]

\* priv->irq_flags = IRQF_SHARED; dev->irq = pdev->irq;
\* priv->can.clock.freq = ...; priv->ocr = ...; priv->cdr = ...
PrivSetup ==
    [irq |-> "pdev->irq", irq_flags |-> {"IRQF_SHARED"}, freq |-> ADV_PCI_CAN_CLOCK,
     ocr |-> ADV_PCI_OCR, cdr |-> ADV_PCI_CDR]

\* priv->read_reg / priv->write_reg bound for a port
Accessor ==
    IF PortSpace THEN "adv_reg_io" ELSE "adv_reg"

Init ==
    /\ build \in {"single", "multi"}
    /\ ent \in adv_pci_tbl(build)
    /\ pc = "unattached"
    /\ caller = "none"
    /\ i = 0
    /\ err = "0"
    /\ ret = "0"
    /\ busy = {}
    /\ enabled = FALSE
    /\ card = "none"
    /\ cards = 0
    /\ drvdata = "NULL"
    /\ bar_addr = ZeroBarAddr
    /\ maps = 0
    /\ net_dev = ZeroNetDev
    /\ hs = [h \in Handles |-> NoHandle]
    /\ nextH = 1
    /\ reserveCnt = [r \in Regions |-> 0]
    /\ releaseCnt = [r \in Regions |-> 0]
    /\ log = << >>
    /\ probes = 0
    /\ removes = 0


\* ------------------------------------------------------------- adv_probe

\* where adv_probe goes when the port loop is entered or continued at index k:
\* the loop body, or "return 0"
LoopOrReturn(k) == IF PortLoop(k) THEN "alloc_dev" ELSE "active"

\* a failure_cleanup that is entered without err being set
FailureCleanupStaleErr(e) ==
    /\ err' = err
    /\ caller' = "probe"
    /\ pc' = "r_port"
    /\ i' = 0
    /\ UNCHANGED ret

\* goto failure_cleanup: adv_probe calls adv_remove(pdev) with err set
FailureCleanup(e) ==
    /\ err' = e
    /\ caller' = "probe"
    /\ pc' = "r_port"
    /\ i' = 0
    /\ UNCHANGED ret

\* adv_probe returns e without cleaning up
ReturnErr(e) ==
    /\ ret' = e
    /\ pc' = "failed"
    /\ UNCHANGED <<err, caller, i>>

\* what adv_probe does when alloc_sja1000dev or register_sja1000dev fails in
\* the port loop: the single-layout build goes to failure_cleanup, the
\* multi-layout build returns at once
PortFailure(e) ==
    IF build = "single" THEN FailureCleanup(e) ELSE ReturnErr(e)

\* the call of adv_remove a failure in the port loop leads to: the arg of an
\* adv_remove entry in the log is 0 for a call from adv_probe, else the number
\* of the bus layer's call
CleanupCall ==
    IF build = "single" THEN << Ev("adv_remove", 0, TRUE) >> ELSE << >>

\* the bus layer calls adv_probe; pci_enable_device(pdev)
ProbeEnable ==
    /\ pc \in {"unattached", "failed", "removed"}
    /\ probes < MaxProbes
    /\ probes' = probes + 1
    /\ removes' = 0
    /\ busy' \in SUBSET ProbedRegions
    /\ \E ok \in BOOLEAN :
         IF ok
         THEN /\ enabled' = TRUE
              /\ pc' = "kzalloc"
              /\ ret' = "0"
              /\ log' = << Ev("pci_enable_device", 0, TRUE) >>
         ELSE /\ pc' = "failed"
              /\ ret' = "-ENODEV"
              /\ log' = << Ev("pci_enable_device", 0, FALSE) >>
              /\ UNCHANGED enabled
    /\ caller' = "probe"
    /\ i' = 0
    /\ err' = "0"
    /\ UNCHANGED <<build, ent, card, cards, drvdata, bar_addr, maps, net_dev, hs,
                   nextH, reserveCnt, releaseCnt>>

\* card = kzalloc(...); pci_set_drvdata(pdev, card); card->card_data = ...
ProbeKzalloc ==
    /\ pc = "kzalloc"
    /\ \E ok \in BOOLEAN :
         IF ok
         THEN /\ card' = "alloc"
              /\ cards' = cards + 1
              /\ net_dev' = ZeroNetDev
              /\ bar_addr' = ZeroBarAddr
              /\ drvdata' = "card"
              /\ pc' = IF PortSpace THEN LoopOrReturn(0) ELSE "request"
              /\ log' = log \o << Ev("kzalloc", 0, TRUE), Ev("pci_set_drvdata", 0, TRUE) >>
              /\ UNCHANGED <<enabled, ret>>
         ELSE /\ enabled' = FALSE
              /\ ret' = "-ENOMEM"
              /\ pc' = "failed"
              /\ log' = log \o << Ev("kzalloc", 0, FALSE), Ev("pci_disable_device", 0, TRUE) >>
              /\ UNCHANGED <<card, cards, net_dev, bar_addr, drvdata>>
    /\ UNCHANGED <<build, ent, caller, i, err, busy, maps, hs, nextH, reserveCnt,
                   releaseCnt, probes, removes>>

\* err = pci_request_region(pdev, 0, DRV_NAME)
ProbeRequestRegion ==
    /\ pc = "request"
    /\ IF 0 \notin busy
       THEN /\ reserveCnt' = [reserveCnt EXCEPT ![0] = @ + 1]
            /\ pc' = "iomap"
            /\ log' = Append(log, Ev("pci_request_region", 0, TRUE))
            /\ UNCHANGED <<err, caller, i, ret>>
       ELSE /\ \E e \in RequestErrs : FailureCleanup(e)
            /\ log' = log \o << Ev("pci_request_region", 0, FALSE), Ev("adv_remove", 0, TRUE) >>
            /\ UNCHANGED reserveCnt
    /\ UNCHANGED <<build, ent, busy, enabled, card, cards, drvdata, bar_addr, maps,
                   net_dev, hs, nextH, releaseCnt, probes, removes>>

\* card->bar_addr[0] = pci_iomap(pdev, 0, 0)
ProbeIomap ==
    /\ pc = "iomap"
    /\ \/ \E a \in MapAddrs :
            /\ bar_addr' = [bar_addr EXCEPT ![0] = a]
            /\ maps' = maps + 1
            /\ pc' = LoopOrReturn(0)
            /\ log' = Append(log, Ev("pci_iomap", a, TRUE))
            /\ UNCHANGED <<err, caller, i, ret>>
       \/ /\ FailureCleanup("-ENOMEM")
          /\ log' = log \o << Ev("pci_iomap", 0, FALSE), Ev("adv_remove", 0, TRUE) >>
          /\ UNCHANGED <<bar_addr, maps>>
    /\ UNCHANGED <<build, ent, busy, enabled, card, cards, drvdata, net_dev, hs,
                   nextH, reserveCnt, releaseCnt, probes, removes>>

\* dev = alloc_sja1000dev(0); card->net_dev[i] = dev; priv->... = ...
ProbeAllocDev ==
    /\ pc = "alloc_dev"
    /\ \/ /\ nextH \in Handles
          /\ hs' = [hs EXCEPT ![nextH] =
                       [st |-> "alloc", regok |-> FALSE, frees |-> 0, unregs |-> 0,
                        reg_base |-> RegBase(i), acc |-> Accessor, dev_id |-> i,
                        cfg |-> PrivSetup]]
          /\ net_dev' = [net_dev EXCEPT ![i] = nextH]
          /\ nextH' = nextH + 1
          /\ pc' = "register"
          /\ log' = Append(log, Ev("alloc_sja1000dev", nextH, TRUE))
          /\ UNCHANGED <<err, caller, i, ret>>
       \/ /\ PortFailure("-ENOMEM")
          /\ log' = log \o << Ev("alloc_sja1000dev", 0, FALSE) >> \o CleanupCall
          /\ UNCHANGED <<hs, net_dev, nextH>>
    /\ UNCHANGED <<build, ent, busy, enabled, card, cards, drvdata, bar_addr, maps,
                   reserveCnt, releaseCnt, probes, removes>>

\* err = register_sja1000dev(dev); on failure free_sja1000dev(dev)
ProbeRegister ==
    /\ pc = "register"
    /\ LET dev == net_dev[i] IN
       \/ /\ hs' = [hs EXCEPT ![dev].st = "registered", ![dev].regok = TRUE]
          /\ i' = i + 1
          /\ pc' = LoopOrReturn(i + 1)
          /\ log' = Append(log, Ev("register_sja1000dev", dev, TRUE))
          /\ UNCHANGED <<err, caller, ret>>
       \/ \E e \in RegisterErrs :
            /\ hs' = [hs EXCEPT ![dev].st = "freed", ![dev].frees = @ + 1]
            /\ PortFailure(e)
            /\ log' = log \o << Ev("register_sja1000dev", dev, FALSE),
                                Ev("free_sja1000dev", dev, TRUE) >> \o CleanupCall
    /\ UNCHANGED <<build, ent, busy, enabled, card, cards, drvdata, bar_addr, maps,
                   net_dev, nextH, reserveCnt, releaseCnt, probes, removes>>


\* ------------------------------------------------------------ adv_remove

\* the bus layer calls adv_remove on a bound device; card = pci_get_drvdata(pdev)
RemoveEnter ==
    /\ pc = "active"
    /\ caller' = "bus"
    /\ removes' = removes + 1
    /\ pc' = "r_port"
    /\ i' = 0
    /\ log' = Append(log, Ev("adv_remove", removes + 1, TRUE))
    /\ UNCHANGED <<build, ent, err, ret, busy, enabled, card, cards, drvdata,
                   bar_addr, maps, net_dev, hs, nextH, reserveCnt, releaseCnt,
                   probes>>

\* adv_remove releasing the region before it disables the device
RemoveOrderReleaseFirst == << "r_unmap", "r_release", "r_disable", "r_kfree" >>

\* the calls adv_remove makes after the net_dev loop, in source order
RemoveOrder == << "r_unmap", "r_disable", "r_release", "r_kfree" >>

\* adv_remove returns to the bus layer, or into adv_probe, which returns err
ReturnTo == IF caller = "probe" THEN "failed" ELSE "removed"

\* the position after step p of adv_remove
AfterStep(p) ==
    LET k == CHOOSE n \in 1 .. Len(RemoveOrder) : RemoveOrder[n] = p
    IN  IF k < Len(RemoveOrder) THEN RemoveOrder[k + 1] ELSE ReturnTo

\* a call on a handle or record that is already freed is undefined: the
\* kernel either carries on or stops the thread with an oops
UbOutcomes(next) == {next, "oops"}

\* one iteration of the net_dev loop:
\* dev = card->net_dev[i]; if (dev) { unregister_sja1000dev(dev); free_sja1000dev(dev); }
RemovePort ==
    /\ pc = "r_port"
    /\ LET dev  == net_dev[i]
           next == IF i + 1 < NetDevSlots THEN "r_port" ELSE RemoveOrder[1]
       IN  IF dev = 0
           THEN /\ pc' = next
                /\ UNCHANGED <<hs, log>>
           ELSE /\ hs' = [hs EXCEPT ![dev].st = "freed",
                                    ![dev].unregs = @ + 1,
                                    ![dev].frees = @ + 1]
                /\ log' = log \o << Ev("unregister_sja1000dev", dev, TRUE),
                                    Ev("free_sja1000dev", dev, TRUE) >>
                /\ pc' \in (IF hs[dev].st = "registered" THEN {next} ELSE UbOutcomes(next))
    /\ i' = i + 1
    /\ ret' = IF pc' = "failed" THEN err ELSE ret
    /\ UNCHANGED <<build, ent, caller, err, busy, enabled, card, cards, drvdata,
                   bar_addr, maps, net_dev, nextH, reserveCnt, releaseCnt, probes,
                   removes>>

\* the addresses adv_remove hands to pci_iounmap, in call order: the
\* single-layout build unmaps card->can_addr whatever it holds, the
\* multi-layout build every non-NULL bar_addr[]
RECURSIVE UnmapArgs(_)
UnmapArgs(k) ==
    IF build = "single" THEN << bar_addr[0] >>
    ELSE IF k >= BarSlots THEN << >>
    ELSE (IF bar_addr[k] # 0 THEN << bar_addr[k] >> ELSE << >>) \o UnmapArgs(k + 1)

RECURSIVE CountMapped(_)
CountMapped(as) ==
    IF as = << >> THEN 0
    ELSE (IF Head(as) # 0 THEN 1 ELSE 0) + CountMapped(Tail(as))

\* pci_disable_msi(pdev); pci_iounmap(pdev, ...)
RemoveUnmap ==
    /\ pc = "r_unmap"
    /\ LET as == UnmapArgs(0) IN
         /\ maps' = maps - CountMapped(as)
         /\ log' = log \o << Ev("pci_disable_msi", 0, TRUE) >>
                       \o [k \in 1 .. Len(as) |-> Ev("pci_iounmap", as[k], TRUE)]
    /\ pc' = AfterStep("r_unmap")
    /\ ret' = IF pc' = "failed" THEN err ELSE ret
    /\ UNCHANGED <<build, ent, caller, i, err, busy, enabled, card, cards,
                   drvdata, bar_addr, net_dev, hs, nextH, reserveCnt, releaseCnt,
                   probes, removes>>

\* pci_disable_device(pdev)
RemoveDisable ==
    /\ pc = "r_disable"
    /\ enabled' = FALSE
    /\ log' = Append(log, Ev("pci_disable_device", 0, TRUE))
    /\ pc' = AfterStep("r_disable")
    /\ ret' = IF pc' = "failed" THEN err ELSE ret
    /\ UNCHANGED <<build, ent, caller, i, err, busy, card, cards, drvdata,
                   bar_addr, maps, net_dev, hs, nextH, reserveCnt, releaseCnt, probes,
                   removes>>

\* the region adv_remove releases
ReleasedRegion == 0

\* pci_release_region(pdev, 0)
RemoveRelease ==
    /\ pc = "r_release"
    /\ releaseCnt' = [releaseCnt EXCEPT ![ReleasedRegion] = @ + 1]
    /\ log' = Append(log, Ev("pci_release_region", ReleasedRegion, TRUE))
    /\ pc' = AfterStep("r_release")
    /\ ret' = IF pc' = "failed" THEN err ELSE ret
    /\ UNCHANGED <<build, ent, caller, i, err, busy, enabled, card, cards,
                   drvdata, bar_addr, maps, net_dev, hs, nextH, reserveCnt, probes,
                   removes>>

\* kfree(card)
RemoveKfree ==
    /\ pc = "r_kfree"
    /\ log' = Append(log, Ev("kfree", 0, TRUE))
    /\ LET next == AfterStep("r_kfree") IN
       IF card = "alloc"
       THEN /\ card' = "freed"
            /\ cards' = cards - 1
            /\ pc' = next
       ELSE /\ pc' \in UbOutcomes(next)
            /\ UNCHANGED <<card, cards>>
    /\ ret' = IF pc' = "failed" THEN err ELSE ret
    /\ UNCHANGED <<build, ent, caller, i, err, busy, enabled, drvdata, bar_addr,
                   maps, net_dev, hs, nextH, reserveCnt, releaseCnt, probes,
                   removes>>

\* --------------------------------------------------------- specification

Next ==
    \/ ProbeEnable
    \/ ProbeKzalloc
    \/ ProbeRequestRegion
    \/ ProbeIomap
    \/ ProbeAllocDev
    \/ ProbeRegister
    \/ RemoveEnter
    \/ RemovePort
    \/ RemoveUnmap
    \/ RemoveDisable
    \/ RemoveRelease
    \/ RemoveKfree

Spec == Init /\ [][Next]_vars


\* ------------------------------------------------- a second adv_remove

\* How many times adv_remove may be called on the device after one probe.
MaxRemoves == 2

\* adv_remove is called again after it has completed. card points to the freed
\* record, so what the loops read from it is undefined: the stale fields, or
\* whatever took their place (here zeroes).
DetachAgain ==
    /\ pc = "removed"
    /\ removes < MaxRemoves
    /\ removes' = removes + 1
    /\ caller' = "bus"
    /\ pc' = "r_port"
    /\ i' = 0
    /\ net_dev' \in {net_dev, ZeroNetDev}
    /\ bar_addr' \in {bar_addr, ZeroBarAddr}
    /\ log' = Append(log, Ev("adv_remove", removes + 1, TRUE))
    /\ UNCHANGED <<build, ent, err, ret, busy, enabled, card, cards, drvdata, maps,
                   hs, nextH, reserveCnt, releaseCnt, probes>>

NextDetachTwice == Next \/ DetachAgain

SpecDetachTwice == Init /\ [][NextDetachTwice]_vars

\* ---------------------------------------------------------- adv_alloc_io

\* the port-mapped entries of the match table
PortMappedEntries ==
    { e \in adv_pci_tbl_multi : card_data(e.driver_data).port_space # 0 }

\* the regions adv_alloc_io can request for any board
IoRegions == 2 .. 2 + NetDevSlots - 1

\* adv_alloc_io(card) is called on a freshly allocated card of a port-mapped
\* board, with any set of its regions held by another owner
InitAllocIo ==
    /\ build = "multi"
    /\ ent \in PortMappedEntries
    /\ pc = "io_req"
    /\ caller = "none"
    /\ i = 0
    /\ err = "0"
    /\ ret = "0"
    /\ busy \in SUBSET IoRegions
    /\ enabled = TRUE
    /\ card = "alloc"
    /\ cards = 1
    /\ drvdata = "card"
    /\ bar_addr = ZeroBarAddr
    /\ maps = 0
    /\ net_dev = ZeroNetDev
    /\ hs = [h \in Handles |-> NoHandle]
    /\ nextH = 1
    /\ reserveCnt = [r \in Regions |-> 0]
    /\ releaseCnt = [r \in Regions |-> 0]
    /\ log = << >>
    /\ probes = 1
    /\ removes = 0

\* the region adv_alloc_io requests for port k
IoRegion(k) == 2 + k

\* one iteration of the loop: err = pci_request_region(pdev, 2 + i, DRV_NAME);
\* if (err) break;
AllocIoRequest ==
    /\ pc = "io_req"
    /\ i < cd.ports
    /\ IF IoRegion(i) \notin busy
       THEN /\ reserveCnt' = [reserveCnt EXCEPT ![IoRegion(i)] = @ + 1]
            /\ err' = "0"
            /\ i' = i + 1
            /\ pc' = IF i + 1 < cd.ports THEN "io_req" ELSE "io_ret"
            /\ log' = Append(log, Ev("pci_request_region", IoRegion(i), TRUE))
       ELSE /\ \E e \in RequestErrs : err' = e
            /\ pc' = "io_ret"
            /\ log' = Append(log, Ev("pci_request_region", IoRegion(i), FALSE))
            /\ UNCHANGED <<reserveCnt, i>>
    /\ UNCHANGED <<build, ent, caller, ret, busy, enabled, card, cards, drvdata,
                   bar_addr, maps, net_dev, hs, nextH, releaseCnt, probes, removes>>

\* return err;
AllocIoReturn ==
    /\ pc = "io_ret"
    /\ ret' = err
    /\ pc' = "io_done"
    /\ UNCHANGED <<build, ent, caller, i, err, busy, enabled, card, cards, drvdata,
                   bar_addr, maps, net_dev, hs, nextH, reserveCnt, releaseCnt, log,
                   probes, removes>>

NextAllocIo == AllocIoRequest \/ AllocIoReturn

SpecAllocIo == InitAllocIo /\ [][NextAllocIo]_vars


\* ------------------------------------------------------ register access

\* Highest register index the SJA1000 module passes to read_reg / write_reg.
RegMax == 31

\* How many register accesses follow an attach.
MaxIo == 2

\* the registers the access steps touch: the first and the last of the range
AccessRegs == {0, RegMax}

\* the bytes written
Vals == {90, 165}

\* a memory-mapped accessor that does not space the registers by 4 bytes
RegAddrUnscaled(h, r) == hs[h].reg_base + r

\* adv_read_reg / adv_write_reg: priv->reg_base + 4 * port;
\* adv_read_reg_io / adv_write_reg_io: priv->reg_base + port
RegAddr(h, r) ==
    IF hs[h].acc = "adv_reg" THEN hs[h].reg_base + 4 * r ELSE hs[h].reg_base + r

WriteOp(h) == IF hs[h].acc = "adv_reg" THEN "writeb" ELSE "outb"

ReadOp(h) == IF hs[h].acc = "adv_reg" THEN "readb" ELSE "inb"

IoOps == {"writeb", "outb", "readb", "inb"}

\* the register accesses since the probe began
IoCalls == SelectSeq(log, LAMBDA e : e.op \in IoOps)

\* the byte at address a of the space written with op w, as the simulated
\* register file holds it after the first n calls of the log: the last byte
\* written there, 0 if none was
RECURSIVE MemAt(_, _, _)
MemAt(w, a, n) ==
    IF n = 0 THEN 0
    ELSE IF log[n].op = w /\ log[n].arg.addr = a THEN log[n].arg.val
    ELSE MemAt(w, a, n - 1)

\* the SJA1000 module calls priv->write_reg(priv, r, v) on a registered port
WriteReg ==
    /\ pc = "active"
    /\ Len(IoCalls) < MaxIo
    /\ \E p \in 0 .. NetDevSlots - 1, r \in AccessRegs, v \in Vals :
         /\ net_dev[p] # 0
         /\ hs[net_dev[p]].st = "registered"
         /\ log' = Append(log, Ev(WriteOp(net_dev[p]),
                                  [addr |-> RegAddr(net_dev[p], r), val |-> v,
                                   port |-> p, reg |-> r], TRUE))
    /\ UNCHANGED <<build, ent, pc, caller, i, err, ret, busy, enabled, card, cards,
                   drvdata, bar_addr, maps, net_dev, hs, nextH, reserveCnt,
                   releaseCnt, probes, removes>>

\* the SJA1000 module calls priv->read_reg(priv, r) on a registered port
ReadReg ==
    /\ pc = "active"
    /\ Len(IoCalls) < MaxIo
    /\ \E p \in 0 .. NetDevSlots - 1, r \in AccessRegs :
         /\ net_dev[p] # 0
         /\ hs[net_dev[p]].st = "registered"
         /\ log' = Append(log, Ev(ReadOp(net_dev[p]),
                                  [addr |-> RegAddr(net_dev[p], r),
                                   val |-> MemAt(WriteOp(net_dev[p]),
                                                 RegAddr(net_dev[p], r), Len(log)),
                                   port |-> p, reg |-> r], TRUE))
    /\ UNCHANGED <<build, ent, pc, caller, i, err, ret, busy, enabled, card, cards,
                   drvdata, bar_addr, maps, net_dev, hs, nextH, reserveCnt,
                   releaseCnt, probes, removes>>

\* the bus layer probes the device once
ProbeOnce == probes = 0 /\ ProbeEnable

\* one attach, with its rollback when it fails, and register accesses while
\* the device stays attached
NextAttach ==
    \/ ProbeOnce
    \/ ProbeKzalloc
    \/ ProbeRequestRegion
    \/ ProbeIomap
    \/ ProbeAllocDev
    \/ ProbeRegister
    \/ RemovePort
    \/ RemoveUnmap
    \/ RemoveDisable
    \/ RemoveRelease
    \/ RemoveKfree
    \/ WriteReg
    \/ ReadReg

SpecAttach == Init /\ [][NextAttach]_vars

\* ----------------------------------------------------------------- claims

\* the port count of the matched layout
NPorts == IF build = "single" THEN BitAnd(ent.device, 15) ELSE cd.ports

\* handles that are allocated and not freed
LiveHandles == { h \in Handles : hs[h].st \in {"alloc", "registered"} }

\* regions this driver reserved and has not released
HeldRegions == { r \in Regions : reserveCnt[r] > releaseCnt[r] }

\* C1: when adv_probe has returned an error, nothing it acquired is left: no
\* region reservation, no mapping, no allocated or registered handle, no card
\* record, and the PCI device is disabled.
C1_NoLeakOnFailedAttach ==
    (pc = "failed" /\ probes = 1) =>
        /\ HeldRegions = {}
        /\ maps = 0
        /\ LiveHandles = {}
        /\ cards = 0
        /\ ~enabled

\* C2: unregister_sja1000dev is never called on a handle whose
\* register_sja1000dev did not succeed, and no handle is freed twice.
C2_NoUnregisterOfUnregisteredNoDoubleFree ==
    \A h \in Handles :
        /\ hs[h].unregs > 0 => hs[h].regok
        /\ hs[h].frees <= 1

\* C3: after a successful adv_probe followed by adv_remove every region has as
\* many releases as reservations, nothing is mapped and no handle is live.
C3_AttachDetachBalanced ==
    (pc = "removed" /\ probes = 1) =>
        /\ \A r \in Regions : reserveCnt[r] = releaseCnt[r]
        /\ maps = 0
        /\ LiveHandles = {}


\* the calls that tear something down
TeardownOps ==
    {"unregister_sja1000dev", "free_sja1000dev", "pci_iounmap",
     "pci_release_region", "kfree"}

\* C4: a second adv_remove on the same device, after the first has completed,
\* unregisters nothing, frees no handle, unmaps nothing, releases no region
\* and does not free the card record.
C4_SecondDetachDoesNothing ==
    \A p \in 1 .. Len(log) :
        (log[p].op = "adv_remove" /\ log[p].arg >= 2) =>
            \A q \in p + 1 .. Len(log) : log[q].op \notin TeardownOps

\* the position in the log of the last call of adv_remove (0: none)
LastRemove ==
    LET ps == { p \in 1 .. Len(log) : log[p].op = "adv_remove" }
    IN  IF ps = {} THEN 0 ELSE CHOOSE p \in ps : \A q \in ps : q <= p

\* the calls adv_remove has made since it was last called
Teardown == SubSeq(log, LastRemove + 1, Len(log))

\* the stage of teardown a call belongs to in the order the claim states:
\* ports, unmap, release, disable, free of the card record (0: not a stage)
StageClaimed(op) ==
    CASE op \in {"unregister_sja1000dev", "free_sja1000dev"} -> 1
      [] op = "pci_iounmap" -> 2
      [] op = "pci_release_region" -> 3
      [] op = "pci_disable_device" -> 4
      [] op = "kfree" -> 5
      [] OTHER -> 0

\* the same with the device disabled before the region is released
StageAmended(op) ==
    CASE op \in {"unregister_sja1000dev", "free_sja1000dev"} -> 1
      [] op = "pci_iounmap" -> 2
      [] op = "pci_disable_device" -> 3
      [] op = "pci_release_region" -> 4
      [] op = "kfree" -> 5
      [] OTHER -> 0

\* C5 as claimed: in every detach or rollback the teardown calls come in the
\* order ports, unmap, region release, device disable, free of the card
\* record.
C5_TeardownOrderClaimed ==
    LastRemove > 0 =>
        \A p, q \in 1 .. Len(Teardown) :
            (p < q /\ StageClaimed(Teardown[p].op) > 0 /\ StageClaimed(Teardown[q].op) > 0)
                => StageClaimed(Teardown[p].op) <= StageClaimed(Teardown[q].op)

\* C5 as amended: in every detach or rollback the teardown calls come in the
\* order ports, unmap, device disable, region release, free of the card
\* record: the device is disabled before the region is released.
C5_TeardownOrder ==
    LastRemove > 0 =>
        \A p, q \in 1 .. Len(Teardown) :
            (p < q /\ StageAmended(Teardown[p].op) > 0 /\ StageAmended(Teardown[q].op) > 0)
                => StageAmended(Teardown[p].op) <= StageAmended(Teardown[q].op)

\* a completed detach of a card with two ports: every stage has happened
C5_Witness ==
    /\ pc = "removed"
    /\ NPorts >= 2
    /\ \A n \in 1 .. 5 : \E p \in 1 .. Len(Teardown) : StageAmended(Teardown[p].op) = n


\* adv_probe is running: it has not returned yet
InProbe ==
    \/ pc \in {"kzalloc", "request", "iomap", "alloc_dev", "register"}
    \/ caller = "probe" /\ pc \in {"r_port", "r_unmap", "r_disable", "r_release", "r_kfree"}

\* C6: the card record is not the device's driver data while adv_probe is
\* still running, and after a failed adv_probe the driver data does not point
\* to the freed card record.
C6_NotExposedBeforeAttachCompletes ==
    /\ InProbe => ~(drvdata = "card" /\ card = "alloc")
    /\ pc = "failed" => ~(drvdata = "card" /\ card = "freed")

\* the successful alloc_sja1000dev calls of the current probe, in call order
AllocCalls == SelectSeq(log, LAMBDA e : e.op = "alloc_sja1000dev" /\ e.ok)

\* C7: the populated net_dev slots are exactly 0 .. k-1 for some k not above
\* the layout's port count, slots from the port count on are empty, and the
\* n-th handle allocated by a probe is the one set up for port n-1 and stored
\* in slot n-1.
C7_SlotsArePrefix ==
    /\ \E k \in 0 .. NPorts :
         \A s \in 0 .. NetDevSlots - 1 : (net_dev[s] # 0) <=> (s < k)
    /\ \A s \in 0 .. NetDevSlots - 1 : s >= NPorts => net_dev[s] = 0
    /\ \A n \in 1 .. Len(AllocCalls) :
         /\ n <= NPorts
         /\ hs[AllocCalls[n].arg].dev_id = n - 1
         /\ net_dev[n - 1] = AllocCalls[n].arg

\* a rollback of a four-port card whose setup stopped after two slots
C7_Witness ==
    /\ pc = "r_port"
    /\ caller = "probe"
    /\ NPorts = 4
    /\ net_dev[0] # 0
    /\ net_dev[1] # 0
    /\ net_dev[2] = 0


\* the regions pci_request_region was called for, in call order
RequestCalls == SelectSeq(log, LAMBDA e : e.op = "pci_request_region")

\* the regions pci_iomap was called for or mapped
MapCalls == SelectSeq(log, LAMBDA e : e.op = "pci_iomap")

\* C8: a successful adv_probe of a port-mapped board with n ports has
\* requested exactly the regions 2, 3, .., 2+n-1, one per port and in that
\* order, and has neither reserved nor mapped region 0.
C8_PortMappedRequestsOneRegionPerPort ==
    (pc = "active" /\ PortSpace) =>
        /\ Len(RequestCalls) = NPorts
        /\ \A n \in 1 .. Len(RequestCalls) : RequestCalls[n].arg = 2 + (n - 1)
        /\ reserveCnt[0] = 0
        /\ MapCalls = << >>

\* C9: when adv_alloc_io fails at port k, the regions 2 .. 2+k-1 it reserved
\* are released again when it returns, region 2+k is not released, and the
\* status is -EBUSY.
C9_AllocIoReleasesOnFailure ==
    (pc = "io_done" /\ ret # "0") =>
        /\ \A r \in 2 .. 2 + i - 1 : releaseCnt[r] = reserveCnt[r]
        /\ releaseCnt[2 + i] = 0
        /\ ret = "-EBUSY"

\* the regions whose reservation succeeded in the current probe
ReservedNow ==
    { RequestCalls[n].arg : n \in { m \in 1 .. Len(RequestCalls) : RequestCalls[m].ok } }

\* C10: after a successful adv_probe of a port-mapped board every port has a
\* reserved region of its own and no two ports have the same reg_base.
C10_PortMappedBasesDistinct ==
    (pc = "active" /\ PortSpace) =>
        /\ Cardinality(ReservedNow) = NPorts
        /\ \A p, q \in 0 .. NPorts - 1 :
             p # q => hs[net_dev[p]].reg_base # hs[net_dev[q]].reg_base


\* the per-port spacing the comments of the match table give for a
\* memory-mapped device id: 0x100 bytes for 0xc0xx and 0xc1xx, 0x400 bytes
\* for 0xc2xx and 0xc3xx
Stride == IF (ent.device \div 256) \in {192, 193} THEN 256 ELSE 1024

\* C11: for a memory-mapped layout the reg_base of port p is
\* region base + stride * p, and an access to register r of port p touches
\* the byte at region base + stride * p + 4 * r.
C11_MemMappedAddressing ==
    ~PortSpace =>
        /\ \A p \in 0 .. NetDevSlots - 1 :
             net_dev[p] # 0 =>
                /\ hs[net_dev[p]].acc = "adv_reg"
                /\ hs[net_dev[p]].reg_base = bar_addr[0] + Stride * p
        /\ \A n \in 1 .. Len(IoCalls) :
             /\ IoCalls[n].op \in {"writeb", "readb"}
             /\ IoCalls[n].arg.addr
                  = bar_addr[0] + Stride * IoCalls[n].arg.port + 4 * IoCalls[n].arg.reg

\* the last register of the last port of a four-port card with 0x100 spacing
\* has been accessed
C11_Witness ==
    /\ ~PortSpace
    /\ Stride = 256
    /\ \E n \in 1 .. Len(IoCalls) :
         /\ IoCalls[n].arg.port = 3
         /\ IoCalls[n].arg.reg = RegMax
         /\ IoCalls[n].arg.addr = bar_addr[0] + 768 + 4 * RegMax

\* the byte register r of port p holds according to the accesses before the
\* n-th: the last byte written to that port and register, 0 if none was
RECURSIVE RegFile(_, _, _)
RegFile(p, r, n) ==
    IF n = 0 THEN 0
    ELSE IF /\ IoCalls[n].op \in {"writeb", "outb"}
            /\ IoCalls[n].arg.port = p
            /\ IoCalls[n].arg.reg = r
         THEN IoCalls[n].arg.val
    ELSE RegFile(p, r, n - 1)

\* the registers of one port's window: the match-table comments give each
\* port a window as long as the spacing, with a 32-bit word for each register
WindowRegs == 0 .. (Stride \div 4) - 1

\* C12: for a memory-mapped layout no register of one port shares its byte
\* address with a register of another port or with another register of the
\* same port, over all registers of the ports' windows (64 with 0x100
\* spacing, 256 with 0x400 spacing); so every read returns the byte last
\* written to that register of that port, whatever was written to the others.
C12_PortsDisjoint ==
    ~PortSpace =>
        /\ (pc = "active" /\ IoCalls = << >>) =>
             Cardinality({ RegAddr(net_dev[p], r) : p \in 0 .. NPorts - 1, r \in WindowRegs })
                = NPorts * Cardinality(WindowRegs)
        /\ \A n \in 1 .. Len(IoCalls) :
             IoCalls[n].op = "readb"
                => IoCalls[n].arg.val
                     = RegFile(IoCalls[n].arg.port, IoCalls[n].arg.reg, n - 1)

\* on a card with 0x100 spacing a byte is written to the last register of
\* port 0 and port 1 is read next: it reads 0, not the byte written
C12_Witness ==
    /\ ~PortSpace
    /\ Stride = 256
    /\ Len(IoCalls) = 2
    /\ IoCalls[1].op = "writeb"
    /\ IoCalls[1].arg.port = 0
    /\ IoCalls[1].arg.reg = RegMax
    /\ IoCalls[2].op = "readb"
    /\ IoCalls[2].arg.port = 1
    /\ IoCalls[2].arg.val = 0


\* the device ids of the port-mapped boards with two ports: 0x1680, 0x3680,
\* 0x2052; and with one port: 0x1681
TwoPortIds == {5760, 13952, 8274}

OnePortIds == {5761}

\* C13: the matched entry of the match table has an entry in the topology
\* table, its port count is in 1 .. 4, for a memory-mapped board it is the low
\* nibble of the device id, for a port-mapped board it is 2 for 0x1680, 0x3680
\* and 0x2052 and 1 for 0x1681; the port loop of adv_probe sets up no more
\* ports than that and a successful adv_probe exactly that many.
C13_TopologyTable ==
    /\ build = "multi" => ent.driver_data \in Boards
    /\ NPorts \in 1 .. NetDevSlots
    /\ ~PortSpace => NPorts = BitAnd(ent.device, 15)
    /\ PortSpace =>
         /\ ent.device \in TwoPortIds \cup OnePortIds
         /\ NPorts = (IF ent.device \in TwoPortIds THEN 2 ELSE 1)
    /\ Len(AllocCalls) <= NPorts
    /\ pc = "active" => Len(AllocCalls) = NPorts

\* the one-port port-mapped board 0x1681 is looked up and attached with one
\* port
C13_Witness ==
    /\ pc = "active"
    /\ ent.device \in OnePortIds
    /\ PortSpace
    /\ Len(AllocCalls) = 1

\* the positions in the log of the calls that failed
FailedAt == { n \in 1 .. Len(log) : ~log[n].ok }

\* C14: when adv_probe has returned an error, exactly one call failed and the
\* status is the one of that call: -ENODEV for pci_enable_device, with
\* nothing else called; -ENOMEM for kzalloc, with the device disabled next;
\* the status of pci_request_region; -ENOMEM for pci_iomap, with region 0
\* released before the return; -ENOMEM for alloc_sja1000dev; one of the
\* statuses of register_sja1000dev for register_sja1000dev.
C14_FailureStatus ==
    pc = "failed" =>
        /\ Cardinality(FailedAt) = 1
        /\ LET p == CHOOSE n \in FailedAt : TRUE
               op == log[p].op
           IN  /\ op \in {"pci_enable_device", "kzalloc", "pci_request_region",
                          "pci_iomap", "alloc_sja1000dev", "register_sja1000dev"}
               /\ op = "pci_enable_device" =>
                    /\ ret = "-ENODEV"
                    /\ Len(log) = 1
                    /\ card = "none"
                    /\ nextH = 1
               /\ op = "kzalloc" =>
                    /\ ret = "-ENOMEM"
                    /\ Len(log) = p + 1
                    /\ log[p + 1].op = "pci_disable_device"
                    /\ ~enabled
                    /\ card = "none"
               /\ op = "pci_request_region" => ret \in RequestErrs
               /\ op = "pci_iomap" =>
                    /\ ret = "-ENOMEM"
                    /\ \E q \in p + 1 .. Len(log) :
                         log[q].op = "pci_release_region" /\ log[q].arg = 0
                    /\ reserveCnt[0] = releaseCnt[0]
               /\ op = "alloc_sja1000dev" => ret = "-ENOMEM"
               /\ op = "register_sja1000dev" => ret \in RegisterErrs

\* adv_probe has returned after pci_iomap failed on a reserved region
C14_Witness ==
    /\ pc = "failed"
    /\ ret = "-ENOMEM"
    /\ \E n \in 1 .. Len(log) : log[n].op = "pci_iomap" /\ ~log[n].ok
    /\ \E n \in 1 .. Len(log) : log[n].op = "pci_request_region" /\ log[n].ok

\* the region the registers of a handle lie in: region 0 for a memory-mapped
\* board, region 2 + port for a port-mapped board
RegionOf(h) == IF hs[h].acc = "adv_reg" THEN 0 ELSE IoRegion(hs[h].dev_id)

\* C15: while a handle is registered, the region its registers lie in is
\* reserved by this driver, and for a memory-mapped board it is mapped.
C15_RegionOutlivesInstances ==
    \A h \in Handles :
        hs[h].st = "registered" =>
            /\ RegionOf(h) \in HeldRegions
            /\ hs[h].acc = "adv_reg" => (maps > 0 /\ bar_addr[0] # 0)

\* the steps of adv_remove after the net_dev loop
AfterPortLoop == {"r_unmap", "r_disable", "r_release", "r_kfree"}

\* C16: adv_remove leaves every slot it has passed empty: slots below the
\* loop index during the net_dev loop, all slots after it.
C16_DetachClearsSlots ==
    /\ pc = "r_port" => \A s \in 0 .. i - 1 : net_dev[s] = 0
    /\ pc \in AfterPortLoop => \A s \in 0 .. NetDevSlots - 1 : net_dev[s] = 0


\* C17: the handle passed to register_sja1000dev carries, for every port of
\* every board: irq = pdev->irq with IRQF_SHARED, clock frequency 8000000,
\* ocr = OCR_TX0_PUSHPULL | OCR_TX1_PUSHPULL, cdr = CDR_CBP | CDR_CLKOUT_MASK,
\* dev_id = the port index, and the _io accessors for a port-mapped board, the
\* memory accessors otherwise; a handle that was registered keeps them.
C17_FixedPortConfiguration ==
    \A h \in Handles :
        (hs[h].regok \/ (pc = "register" /\ h = net_dev[i])) =>
            /\ hs[h].cfg.irq = "pdev->irq"
            /\ hs[h].cfg.irq_flags = {"IRQF_SHARED"}
            /\ hs[h].cfg.freq = 8000000
            /\ hs[h].cfg.ocr = {"OCR_TX0_PUSHPULL", "OCR_TX1_PUSHPULL"}
            /\ hs[h].cfg.cdr = {"CDR_CBP", "CDR_CLKOUT_MASK"}
            /\ hs[h].acc = (IF build = "multi" /\ cd.port_space # 0
                            THEN "adv_reg_io" ELSE "adv_reg")
            /\ (pc = "register" /\ h = net_dev[i]) => hs[h].dev_id = i
            /\ \E s \in 0 .. NetDevSlots - 1 : net_dev[s] = h /\ hs[h].dev_id = s

\* the fourth port of a four-port card is about to be registered
C17_Witness ==
    /\ pc = "register"
    /\ i = 3
    /\ net_dev[3] # 0
    /\ hs[net_dev[3]].st = "alloc"

\* the addresses pci_iounmap was called with
UnmapCalls == SelectSeq(log, LAMBDA e : e.op = "pci_iounmap")

\* C18: no region is released more often than this driver reserved it, and
\* pci_iounmap is never called with an address that pci_iomap did not return.
C18_ReleaseOnlyAcquired ==
    /\ \A r \in Regions : releaseCnt[r] <= reserveCnt[r]
    /\ \A n \in 1 .. Len(UnmapCalls) :
         \E m \in 1 .. Len(MapCalls) :
            MapCalls[m].ok /\ MapCalls[m].arg = UnmapCalls[n].arg

\* C19: when adv_probe has returned 0 for a board with n ports, n handles were
\* allocated and registered in port order, slot s holds the handle with
\* dev_id s for s < n, the other slots are empty, the device is enabled, and
\* the regions of the layout are reserved: region 0, mapped, for a
\* memory-mapped board, regions 2 .. 2+n-1 for a port-mapped board.
C19_SuccessfulAttachComplete ==
    pc = "active" =>
        /\ Len(AllocCalls) = NPorts
        /\ \A s \in 0 .. NetDevSlots - 1 :
             IF s < NPorts
             THEN /\ net_dev[s] = AllocCalls[s + 1].arg
                  /\ hs[net_dev[s]].st = "registered"
                  /\ hs[net_dev[s]].dev_id = s
             ELSE net_dev[s] = 0
        /\ enabled
        /\ IF PortSpace
           THEN \A k \in 0 .. NPorts - 1 : IoRegion(k) \in ReservedNow
           ELSE 0 \in ReservedNow /\ bar_addr[0] # 0

====
